---------------------------- MODULE Spec2Model ----------------------------
(***************************************************************************)
(* RustChip8: the CHIP-8 interpreter of src/main.rs as a state machine.    *)
(*                                                                         *)
(* The state is the Chip8 struct (mem, pc, reg_i, stack, registers,        *)
(* display, delay_timer, sound_timer), the locals of main (buffer, the     *)
(* bytes read from stdin; instruction, the word returned by fetch), the    *)
(* position of main (ctl), the panic that ended the run (panic), and the   *)
(* build profile (overflow_checks: a dev build panics on integer           *)
(* overflow, a release build wraps).                                       *)
(*                                                                         *)
(* The two arrays are kept sparse.  mem: [u8; 4096] is the function from   *)
(* the addresses that hold a nonzero byte to that byte, read with Mem and  *)
(* written with MemWrite; display: [[bool; 64]; 32] is the set of the      *)
(* <<row, column>> pairs whose pixel is on, read with Pixel.               *)
(***************************************************************************)
EXTENDS Integers, Sequences, FiniteSets, TLC

VARIABLES mem, pc, reg_i, stack, registers, display, delay_timer, sound_timer,
          instruction, buffer, ctl, panic, overflow_checks

chip8 == <<mem, pc, reg_i, stack, registers, display, delay_timer, sound_timer>>
vars == <<mem, pc, reg_i, stack, registers, display, delay_timer, sound_timer,
          instruction, buffer, ctl, panic, overflow_checks>>

(***************************************************************************)
(* Program constants.                                                      *)
(***************************************************************************)
SCREEN_WIDTH == 64
SCREEN_HEIGHT == 32
MEM_SIZE == 4096
ROM_START == 512
NUM_REGISTERS == 16
VF == 15

(***************************************************************************)
(* Bounds of the model.  The call stack is a Vec that grows without limit; *)
(* the model stops a run whose stack would exceed MaxStack entries.        *)
(***************************************************************************)
MaxStack == 3

U8 == 0..255
Addresses == 0..(MEM_SIZE - 1)

(***************************************************************************)
(* The arrays of the Chip8 struct: self.mem[a], self.mem[a] = v,           *)
(* self.display[y][x], self.display[y][x] ^= true.  The bounds check of    *)
(* the indexing is made by the callers.                                    *)
(***************************************************************************)
Mem(a) == IF a \in DOMAIN mem THEN mem[a] ELSE 0

MemWrite(m, a, v) ==
  [b \in IF v = 0 THEN DOMAIN m \ {a} ELSE DOMAIN m \cup {a} |->
     IF b = a THEN v ELSE m[b]]

Pixel(d, y, x) == <<y, x>> \in d

\* mutant of PixelXorTrue: the pixel is set instead of inverted
PixelOrTrue(d, y, x) == d \cup {<<y, x>>}

PixelXorTrue(d, y, x) == IF <<y, x>> \in d THEN d \ {<<y, x>>} ELSE d \cup {<<y, x>>}

(***************************************************************************)
(* Integer helpers: u8 / u16 arithmetic and the bitwise operators.         *)
(***************************************************************************)
Wrap8(v) == v % 256
Wrap16(v) == v % 65536

RECURSIVE bitwise(_, _, _, _)
bitwise(t, a, b, k) ==
  IF k = 0 THEN 0
  ELSE t[a % 2][b % 2] + 2 * bitwise(t, a \div 2, b \div 2, k - 1)

OrBit == [p \in 0..1 |-> [q \in 0..1 |-> IF p + q > 0 THEN 1 ELSE 0]]
AndBit == [p \in 0..1 |-> [q \in 0..1 |-> p * q]]
XorBit == [p \in 0..1 |-> [q \in 0..1 |-> (p + q) % 2]]

\* the operators on 4-bit operands, tabulated, and on 16-bit operands, nibble
\* by nibble
OrNibble == [p \in 0..15 |-> [q \in 0..15 |-> bitwise(OrBit, p, q, 4)]]
AndNibble == [p \in 0..15 |-> [q \in 0..15 |-> bitwise(AndBit, p, q, 4)]]
XorNibble == [p \in 0..15 |-> [q \in 0..15 |-> bitwise(XorBit, p, q, 4)]]

ByNibble(t, a, b) ==
  t[a % 16][b % 16]
  + 16 * t[(a \div 16) % 16][(b \div 16) % 16]
  + 256 * t[(a \div 256) % 16][(b \div 256) % 16]
  + 4096 * t[(a \div 4096) % 16][(b \div 4096) % 16]

BitOr(a, b) == ByNibble(OrNibble, a, b)
BitAnd(a, b) == ByNibble(AndNibble, a, b)
BitXor(a, b) == ByNibble(XorNibble, a, b)
Shl8(v, k) == (v * 2^k) % 256
Shl16(v, k) == (v * 2^k) % 65536
Shr(v, k) == v \div 2^k

(***************************************************************************)
(* split_nibbles and conc_nibbles (main.rs 277-294).                       *)
(***************************************************************************)
split_nibbles(word) ==
  << BitAnd(Shr(word, 12), 15), BitAnd(Shr(word, 8), 15),
     BitAnd(Shr(word, 4), 15), BitAnd(word, 15) >>

RECURSIVE conc_loop(_, _, _)
conc_loop(nibbs, k, addr) ==
  IF k > Len(nibbs) THEN addr
  ELSE conc_loop(nibbs, k + 1, BitOr(Shl16(addr, 4), nibbs[k]))

conc_nibbles(nibbs) == conc_loop(nibbs, 1, 0)

(***************************************************************************)
(* The bytes main reads from stdin (main.rs 299-304).  A ROM is written    *)
(* here as a sequence of 16-bit words, stored most significant byte first. *)
(* Roms is the set of inputs of the model: families of programs, each      *)
(* built around the opcodes it exercises.                                  *)
(***************************************************************************)
RomBytes(words) ==
  [k \in 1..(2 * Len(words)) |->
     IF k % 2 = 1 THEN words[(k + 1) \div 2] \div 256
                  ELSE words[k \div 2] % 256]

Word(a, b, c, d) == 4096 * a + 256 * b + 16 * c + d
Imm(a, b, kk) == 4096 * a + 256 * b + kk
Adr(a, nnn) == 4096 * a + nnn

Bytes == {0, 1, 128, 255}

\* 6xkk words that set the operand registers (x, y) and, where it is neither, VF
RegSetups ==
  { <<0, 1, <<Imm(6, 15, f), Imm(6, 0, a), Imm(6, 1, b)>> >> :
      f \in {0, 1}, a \in Bytes, b \in Bytes }
  \cup { <<15, 1, <<Imm(6, 15, a), Imm(6, 1, b)>> >> : a \in Bytes, b \in Bytes }
  \cup { <<1, 15, <<Imm(6, 1, a), Imm(6, 15, b)>> >> : a \in Bytes, b \in Bytes }
  \cup { <<1, 1, <<Imm(6, 1, a)>> >> : a \in Bytes }

\* the register-to-register words 8xy0 .. 8xyE, 5xy0, 9xy0
RegOps(x, y) ==
  { Word(8, x, y, k) : k \in {0, 1, 2, 3, 4, 5, 6, 7, 14} }
  \cup { Word(5, x, y, 0), Word(9, x, y, 0) }

\* the register-immediate words 3xkk, 4xkk, 7xkk
ImmOps(x) == { Imm(k, x, kk) : k \in {3, 4, 7}, kk \in {1, 255} }

\* registers set, then one arithmetic, logic or skip word
AluRoms ==
  UNION { { RomBytes(s[3] \o <<w>>) : w \in RegOps(s[1], s[2]) \cup ImmOps(s[1]) } :
          s \in RegSetups }

\* four words at 0x200 .. 0x206, each a call of 0x202, 0x204 or 0x206 or a
\* return; and 2300 at 0x200 with 00EE at 0x300
CallWords == { Adr(2, 514), Adr(2, 516), Adr(2, 518), Word(0, 0, 14, 14) }

CallScenarioRom ==
  RomBytes([k \in 1..129 |-> IF k = 1 THEN Adr(2, 768)
                             ELSE IF k = 129 THEN Word(0, 0, 14, 14) ELSE 0])

CallRoms ==
  { RomBytes(<<a, b, c, d>>) : a \in CallWords, b \in CallWords, c \in CallWords, d \in CallWords }
  \cup { CallScenarioRom }

\* I, V0 and V1 set, then the same D01n three times (the sprite is the
\* program's own bytes, zeros, or runs past the end of memory); a first
\* sprite, then a second one drawn twice at another column; VF as an
\* operand of the draw; and D002 with the sprite {0xFF, 0x00}
DrawScenarioRom == RomBytes(<<Adr(10, 516), Word(13, 0, 0, 2), 65280>>)

\* the sprite {0xD0, 0x02} drawn, the screen cleared, the sprite drawn again
ClearRom ==
  RomBytes(<<Adr(10, 514), Word(13, 0, 0, 2), Word(0, 0, 14, 0), Word(13, 0, 0, 2)>>)

TripleDrawRoms ==
  { RomBytes(<<Adr(10, i), Imm(6, 0, a), Imm(6, 1, b),
               Word(13, 0, 1, n), Word(13, 0, 1, n), Word(13, 0, 1, n)>>) :
      i \in {512, 514, 4094, 4095}, a \in {0, 60, 255}, b \in {0, 31, 255}, n \in {0, 1, 2, 15} }

DrawRoms ==
  TripleDrawRoms
  \cup { RomBytes(<<Adr(10, 512), Word(13, 0, 1, n), Imm(6, 0, c),
                    Word(13, 0, 1, m), Word(13, 0, 1, m)>>) :
           n \in {1, 2, 15}, c \in {0, 4, 62}, m \in {1, 2, 15} }
  \cup { RomBytes(<<Adr(10, 512), Imm(6, 15, a), w, w>>) :
           a \in {1, 5}, w \in {Word(13, 15, 0, 2), Word(13, 0, 15, 2)} }
  \cup { DrawScenarioRom, ClearRom }

\* one word of every arm of the match that is todo!(), words that match no
\* arm, jumps to the last addresses, and Fx33 at the last addresses
FaultRoms ==
  { RomBytes(<<w>>) :
      w \in { Word(8, 0, 1, 6), Word(8, 0, 1, 14), Adr(11, 768), Imm(12, 0, 255),
              Word(14, 0, 9, 14), Word(14, 0, 10, 1), Word(15, 0, 0, 10),
              Word(15, 0, 2, 9), Word(15, 0, 5, 5), Word(15, 0, 6, 5),
              0, Word(0, 0, 14, 1), Word(5, 0, 1, 1), Word(8, 0, 1, 8),
              Word(9, 0, 1, 1), Word(14, 0, 15, 15), Word(15, 0, 15, 15),
              Adr(1, 4095), Adr(1, 4094), Word(0, 0, 14, 14), Word(0, 0, 14, 0) } }
  \cup { RomBytes(<<Adr(10, i), Imm(6, 0, 255), Word(15, 0, 3, 3)>>) :
           i \in {4093, 4094, 4095} }
  \cup { RomBytes(<<Adr(10, 4095), Imm(6, 0, 5), Word(15, 0, 1, 14), Word(15, 0, 3, 3)>>) }

\* ROMs by length: empty, the longest that fits (a jump to its last word at
\* 0xFFE, which is 6005 or the skip 3000), and one byte more than fits
SizeRoms ==
  { << >> }
  \cup { RomBytes([k \in 1..1792 |-> IF k = 1 THEN Adr(1, 4094)
                                      ELSE IF k = 1792 THEN w ELSE 0]) :
           w \in { Imm(6, 0, 5), Imm(3, 0, 0) } }
  \cup { [k \in 1..3585 |-> 1] }

\* 00E0 1200 and 7001 1200, which loop; I = 0xFFF and then FF1E (I += 255)
\* until I passes 0xFFFF; and 6A05 FA1E with I = 0x0FFE
ClearLoopRom == RomBytes(<<Word(0, 0, 14, 0), Adr(1, 512)>>)

AddIndexScenarioRom == RomBytes(<<Adr(10, 4094), Imm(6, 10, 5), Word(15, 10, 1, 14)>>)

LoopRoms ==
  { ClearLoopRom,
    RomBytes(<<Imm(7, 0, 1), Adr(1, 512)>>),
    RomBytes([k \in 1..244 |-> IF k = 1 THEN Imm(6, 15, 255)
                                ELSE IF k = 2 THEN Adr(10, 4095)
                                ELSE Word(15, 15, 1, 14)]),
    AddIndexScenarioRom }

\* the timers: V0 set, moved to the delay and the sound timer, and read back;
\* a timer set to 5 or 255 followed by a jump to itself; and both timers set
\* (255 and 2) followed by a jump to itself
TimerLoopRoms ==
  { RomBytes(<<Imm(6, 0, v), Word(15, 0, 1, k), Adr(1, 516)>>) :
      v \in {5, 255}, k \in {5, 8} }
  \cup { RomBytes(<<Imm(6, 0, a), Word(15, 0, 1, 5), Imm(6, 0, b), Word(15, 0, 1, 8),
                    Adr(1, 520)>>) : <<a, b>> \in { <<255, 2>>, <<2, 255>> } }

TimerRoms ==
  { RomBytes(<<Imm(6, 0, a), Word(15, 0, 1, 5), Word(15, 1, 0, 7),
               Imm(6, 0, b), Word(15, 0, 1, 8), Word(15, 2, 0, 7)>>) :
      a \in {0, 1, 3}, b \in {0, 1, 3} }
  \cup TimerLoopRoms

\* Fx33 of every byte, written at 0x300
BcdRoms ==
  { RomBytes(<<Adr(10, 768), Imm(6, 0, v), Word(15, 0, 3, 3)>>) : v \in U8 }

Roms == AluRoms \cup CallRoms \cup DrawRoms \cup FaultRoms \cup SizeRoms
        \cup LoopRoms \cup TimerRoms \cup BcdRoms

(***************************************************************************)
(* Chip8::new (main.rs 24-35) at the start of main; stdin holds a ROM.     *)
(***************************************************************************)
Init ==
  /\ mem = << >>
  /\ pc = ROM_START
  /\ reg_i = 0
  /\ stack = <<>>
  /\ registers = [r \in 0..(NUM_REGISTERS - 1) |-> 0]
  /\ display = {}
  /\ delay_timer = 0
  /\ sound_timer = 0
  /\ instruction = 0
  /\ buffer \in Roms
  /\ ctl = "load_rom"
  /\ panic = "none"
  /\ overflow_checks \in BOOLEAN

(***************************************************************************)
(* The types of the fields of struct Chip8 (main.rs 12-21) and of the      *)
(* locals of main.                                                         *)
(***************************************************************************)
TypeOK ==
  /\ DOMAIN mem \subseteq Addresses
  /\ \A a \in DOMAIN mem : mem[a] \in 1..255
  /\ pc \in 0..65535
  /\ reg_i \in 0..65535
  /\ stack \in Seq(0..65535)
  /\ registers \in [0..(NUM_REGISTERS - 1) -> U8]
  /\ display \subseteq (0..(SCREEN_HEIGHT - 1)) \X (0..(SCREEN_WIDTH - 1))
  /\ delay_timer \in U8
  /\ sound_timer \in U8
  /\ instruction \in 0..65535
  /\ \A k \in 1..Len(buffer) : buffer[k] \in U8
  /\ ctl \in {"load_rom", "fetch", "execute", "draw_display", "closed", "panicked"}
  /\ (ctl = "panicked") = (panic # "none")
  /\ overflow_checks \in BOOLEAN

Panic(msg) == ctl' = "panicked" /\ panic' = msg
Done == ctl' = "draw_display" /\ panic' = panic

(***************************************************************************)
(* Chip8::load_rom (main.rs 247-249): copy_from_slice into                 *)
(* mem[0x200 .. 0x200 + len]; the slice index panics past the end of mem.  *)
(***************************************************************************)
\* mutant of load_rom: a ROM that does not fit is cut at the end of mem
load_rom_truncating(rom_data) ==
  /\ mem' = [a \in { b \in ROM_START..(MEM_SIZE - 1) :
                        b < ROM_START + Len(rom_data) /\ rom_data[b - ROM_START + 1] # 0 } |->
               rom_data[a - ROM_START + 1]]
  /\ ctl' = "fetch"
  /\ panic' = panic

load_rom(rom_data) ==
  IF ROM_START + Len(rom_data) > MEM_SIZE
  THEN /\ Panic("range end index out of range")
       /\ mem' = mem
  ELSE /\ mem' = [a \in { b \in (DOMAIN mem) \cup (ROM_START..(ROM_START + Len(rom_data) - 1)) :
                             IF b >= ROM_START /\ b < ROM_START + Len(rom_data)
                             THEN rom_data[b - ROM_START + 1] # 0 ELSE TRUE } |->
                    IF a >= ROM_START /\ a < ROM_START + Len(rom_data)
                    THEN rom_data[a - ROM_START + 1] ELSE mem[a]]
       /\ ctl' = "fetch"
       /\ panic' = panic

LoadRom ==
  /\ ctl = "load_rom"
  /\ load_rom(buffer)
  /\ UNCHANGED <<pc, reg_i, stack, registers, display, delay_timer, sound_timer,
                 instruction, buffer, overflow_checks>>

(***************************************************************************)
(* Chip8::fetch (main.rs 37-43).  Indexing mem past 4095 panics; pc + 1    *)
(* and pc += 2 are u16 additions.                                          *)
(***************************************************************************)
\* mutant of fetch: the two bytes combined low byte first
fetch_little_endian ==
  IF pc > MEM_SIZE - 1 \/ pc + 1 > MEM_SIZE - 1
  THEN /\ Panic("index out of bounds")
       /\ UNCHANGED <<pc, instruction>>
  ELSE /\ pc' = pc + 2
       /\ instruction' = BitOr(Shl16(Mem(pc + 1), 8), Mem(pc))
       /\ ctl' = "execute"
       /\ panic' = panic

fetch ==
  IF pc > MEM_SIZE - 1 \/ pc + 1 > MEM_SIZE - 1
  THEN /\ Panic("index out of bounds")
       /\ UNCHANGED <<pc, instruction>>
  ELSE LET byte1 == Mem(pc)
           byte2 == Mem(pc + 1)
       IN /\ pc' = pc + 2
          /\ instruction' = BitOr(Shl16(byte1, 8), byte2)
          /\ ctl' = "execute"
          /\ panic' = panic

Fetch ==
  /\ ctl = "fetch"
  /\ fetch
  /\ UNCHANGED <<mem, reg_i, stack, registers, display, delay_timer, sound_timer,
                 buffer, overflow_checks>>

(***************************************************************************)
(* Chip8::execute (main.rs 45-225), one definition per arm of the match.   *)
(* Each arm says what it does to the Chip8 struct and whether it returns   *)
(* (Done) or panics.                                                       *)
(***************************************************************************)

\* clear_screen (main.rs 251-253), called by the 00E0 arm
\* mutant of clear_screen: the first row is left as it was
clear_screen_but_first_row ==
  display' = { q \in display : q[1] = 0 }

clear_screen ==
  display' = {}

op_00E0 ==
  /\ clear_screen
  /\ Done
  /\ UNCHANGED <<mem, pc, reg_i, stack, registers, delay_timer, sound_timer>>

\* self.pc = self.stack.pop().expect(..)
op_00EE ==
  IF Len(stack) = 0
  THEN /\ Panic("Tried to pop at empty stack!")
       /\ UNCHANGED chip8
  ELSE /\ pc' = stack[Len(stack)]
       /\ stack' = SubSeq(stack, 1, Len(stack) - 1)
       /\ Done
       /\ UNCHANGED <<mem, reg_i, registers, display, delay_timer, sound_timer>>

\* mutant of op_1nnn: the address is built from the first two nibbles only
op_1nnn_two_nibbles(nibb1, nibb2, nibb3) ==
  /\ pc' = conc_nibbles(<<nibb1, nibb2>>)
  /\ Done
  /\ UNCHANGED <<mem, reg_i, stack, registers, display, delay_timer, sound_timer>>

op_1nnn(nibb1, nibb2, nibb3) ==
  /\ pc' = conc_nibbles(<<nibb1, nibb2, nibb3>>)
  /\ Done
  /\ UNCHANGED <<mem, reg_i, stack, registers, display, delay_timer, sound_timer>>

\* mutant of op_2nnn: pc is overwritten before it is pushed
op_2nnn_push_after_jump(nibb1, nibb2, nibb3) ==
  /\ Len(stack) < MaxStack
  /\ stack' = Append(stack, conc_nibbles(<<nibb1, nibb2, nibb3>>))
  /\ pc' = conc_nibbles(<<nibb1, nibb2, nibb3>>)
  /\ Done
  /\ UNCHANGED <<mem, reg_i, registers, display, delay_timer, sound_timer>>

\* self.stack.push(self.pc); self.pc = addr
op_2nnn(nibb1, nibb2, nibb3) ==
  /\ Len(stack) < MaxStack
  /\ stack' = Append(stack, pc)
  /\ pc' = conc_nibbles(<<nibb1, nibb2, nibb3>>)
  /\ Done
  /\ UNCHANGED <<mem, reg_i, registers, display, delay_timer, sound_timer>>

\* mutant of Skip: two instructions are skipped
Skip_two_instructions(cond) ==
  /\ pc' = IF cond THEN pc + 4 ELSE pc
  /\ Done
  /\ UNCHANGED <<mem, reg_i, stack, registers, display, delay_timer, sound_timer>>

\* the skips: self.pc += 2 when the condition holds
Skip(cond) ==
  /\ pc' = IF cond THEN pc + 2 ELSE pc
  /\ Done
  /\ UNCHANGED <<mem, reg_i, stack, registers, display, delay_timer, sound_timer>>

op_3xkk(x, nibb1, nibb2) == Skip(registers[x] = BitOr(Shl8(nibb1, 4), nibb2))
op_4xkk(x, nibb1, nibb2) == Skip(registers[x] # BitOr(Shl8(nibb1, 4), nibb2))
op_5xy0(x, y) == Skip(registers[x] = registers[y])
op_9xy0(x, y) == Skip(registers[x] # registers[y])

\* an arm that only writes registers[x]
SetReg(x, val) ==
  /\ registers' = [registers EXCEPT ![x] = val]
  /\ Done
  /\ UNCHANGED <<mem, pc, reg_i, stack, display, delay_timer, sound_timer>>

op_6xkk(x, nibb1, nibb2) == SetReg(x, BitOr(Shl8(nibb1, 4), nibb2))

\* self.registers[idx] += val: a u8 addition, which panics on overflow in a
\* build with overflow checks and wraps otherwise
op_7xkk(x, nibb1, nibb2) ==
  LET val == BitOr(Shl8(nibb1, 4), nibb2)
      sum == registers[x] + val
  IN IF overflow_checks /\ sum > 255
     THEN Panic("attempt to add with overflow") /\ UNCHANGED chip8
     ELSE SetReg(x, Wrap8(sum))

op_8xy0(x, y) == SetReg(x, registers[y])
op_8xy1(x, y) == SetReg(x, BitOr(registers[x], registers[y]))
op_8xy2(x, y) == SetReg(x, BitAnd(registers[x], registers[y]))
op_8xy3(x, y) == SetReg(x, BitXor(registers[x], registers[y]))

\* 8xy4: the u16 sum decides the flag write (only a write of 1); the u8 += that
\* follows reads the registers again, after the flag write
op_8xy4(x, y) ==
  LET x_val == registers[x]
      y_val == registers[y]
      sum == x_val + y_val
      flagged == IF sum > 255 THEN [registers EXCEPT ![VF] = 1] ELSE registers
      res == flagged[x] + flagged[y]
  IN IF overflow_checks /\ res > 255
     THEN /\ Panic("attempt to add with overflow")
          /\ registers' = flagged
          /\ UNCHANGED <<mem, pc, reg_i, stack, display, delay_timer, sound_timer>>
     ELSE /\ registers' = [flagged EXCEPT ![x] = Wrap8(res)]
          /\ Done
          /\ UNCHANGED <<mem, pc, reg_i, stack, display, delay_timer, sound_timer>>

\* 8xy5: self.registers[x] -= self.registers[y], and nothing else
op_8xy5(x, y) ==
  LET res == registers[x] - registers[y]
  IN IF overflow_checks /\ res < 0
     THEN Panic("attempt to subtract with overflow") /\ UNCHANGED chip8
     ELSE SetReg(x, Wrap8(res))

\* 8xy7: let res = registers[x] - registers[y]; registers[x] = res
op_8xy7(x, y) ==
  LET res == registers[x] - registers[y]
  IN IF overflow_checks /\ res < 0
     THEN Panic("attempt to subtract with overflow") /\ UNCHANGED chip8
     ELSE SetReg(x, Wrap8(res))

\* todo!()
Todo == Panic("not yet implemented") /\ UNCHANGED chip8

op_8xy6(x, y) == Todo
op_8xyE(x, y) == Todo
op_Bnnn(nibb1, nibb2, nibb3) == Todo
op_Cxkk(x, nibb1, nibb2) == Todo
op_Ex9E(x) == Todo
op_ExA1(x) == Todo
op_Fx0A(x) == Todo
op_Fx29(x) == Todo
op_Fx55(x) == Todo
op_Fx65(x) == Todo

op_Annn(nibb1, nibb2, nibb3) ==
  /\ reg_i' = conc_nibbles(<<nibb1, nibb2, nibb3>>)
  /\ Done
  /\ UNCHANGED <<mem, pc, stack, registers, display, delay_timer, sound_timer>>

\* Dxyn works on the record s of the display, the registers and ok, which is
\* FALSE once self.mem[addr] has been indexed past 4095 (the panic that ends
\* the loops, with the rows drawn until then).

\* one iteration of the inner loop (for j in 0..8): bit j of the sprite byte
draw_bit(s, sprite_data, x_pos, screen_y, j) ==
  LET pixel == BitAnd(Shr(sprite_data, 7 - j), 1) # 0
      screen_x == (x_pos + j) % 64
  IN IF pixel
     THEN [ display |-> PixelXorTrue(s.display, screen_y, screen_x),
            registers |-> IF Pixel(s.display, screen_y, screen_x)
                          THEN [s.registers EXCEPT ![VF] = 1] ELSE s.registers,
            ok |-> s.ok ]
     ELSE s

\* the inner loop from iteration j on
RECURSIVE draw_bits(_, _, _, _, _)
draw_bits(s, sprite_data, x_pos, screen_y, j) ==
  IF j = 8 \/ ~s.ok THEN s
  ELSE draw_bits(draw_bit(s, sprite_data, x_pos, screen_y, j),
                 sprite_data, x_pos, screen_y, j + 1)

\* one iteration of the outer loop (for i in 0..n): row i of the sprite
draw_row(s, x_pos, y_pos, i) ==
  LET addr == reg_i + i
  IN IF addr > MEM_SIZE - 1 THEN [s EXCEPT !.ok = FALSE]
     ELSE draw_bits(s, Mem(addr), x_pos, (y_pos + i) % 32, 0)

\* the outer loop from iteration i on
RECURSIVE draw_rows(_, _, _, _, _)
draw_rows(s, x_pos, y_pos, n, i) ==
  IF i = n \/ ~s.ok THEN s
  ELSE draw_rows(draw_row(s, x_pos, y_pos, i), x_pos, y_pos, n, i + 1)

\* mutant of draw: VF is not set to 0 before the rows are drawn
draw_without_flag_reset(d, regs, x, y, n) ==
  draw_rows([display |-> d, registers |-> regs, ok |-> TRUE],
            regs[x] % 64, regs[y] % 32, n, 0)

\* the body of the Dxyn arm on a display d and registers regs: x_pos and y_pos
\* are read, then VF is set to 0, then the rows are drawn
draw(d, regs, x, y, n) ==
  LET x_pos == regs[x] % 64
      y_pos == regs[y] % 32
  IN draw_rows([display |-> d, registers |-> [regs EXCEPT ![VF] = 0], ok |-> TRUE],
               x_pos, y_pos, n, 0)

op_Dxyn(x, y, n) ==
  LET drawn == draw(display, registers, x, y, n)
  IN /\ display' = drawn.display
     /\ registers' = drawn.registers
     /\ IF drawn.ok THEN Done ELSE Panic("index out of bounds")
     /\ UNCHANGED <<mem, pc, reg_i, stack, delay_timer, sound_timer>>

op_Fx07(x) == SetReg(x, delay_timer)

op_Fx15(x) ==
  /\ delay_timer' = registers[x]
  /\ Done
  /\ UNCHANGED <<mem, pc, reg_i, stack, registers, display, sound_timer>>

op_Fx18(x) ==
  /\ sound_timer' = registers[x]
  /\ Done
  /\ UNCHANGED <<mem, pc, reg_i, stack, registers, display, delay_timer>>

\* mutant of op_Fx1E: the sum is cut to the 12 bits of an address
op_Fx1E_twelve_bits(x) ==
  /\ reg_i' = (reg_i + registers[x]) % 4096
  /\ Done
  /\ UNCHANGED <<mem, pc, stack, registers, display, delay_timer, sound_timer>>

\* self.reg_i += self.registers[x] as u16: a u16 addition
op_Fx1E(x) ==
  LET sum == reg_i + registers[x]
  IN IF overflow_checks /\ sum > 65535
     THEN Panic("attempt to add with overflow") /\ UNCHANGED chip8
     ELSE /\ reg_i' = Wrap16(sum)
          /\ Done
          /\ UNCHANGED <<mem, pc, stack, registers, display, delay_timer, sound_timer>>

\* mutant of op_Fx33: the tens digit is val % 100 / 10 rounded up
op_Fx33_tens_rounded_up(x) ==
  LET val == registers[x]
      digit1 == val \div 100
      digit2 == ((val % 100) + 9) \div 10
      digit3 == val % 10
      m1 == MemWrite(mem, reg_i, digit1)
      m2 == MemWrite(m1, reg_i + 1, digit2)
      m3 == MemWrite(m2, reg_i + 2, digit3)
  IN /\ mem' = IF reg_i > MEM_SIZE - 1 THEN mem
               ELSE IF reg_i + 1 > MEM_SIZE - 1 THEN m1
               ELSE IF reg_i + 2 > MEM_SIZE - 1 THEN m2
               ELSE m3
     /\ IF reg_i + 2 > MEM_SIZE - 1 THEN Panic("index out of bounds") ELSE Done
     /\ UNCHANGED <<pc, reg_i, stack, registers, display, delay_timer, sound_timer>>

\* Fx33: three writes, each an indexing of mem that panics past 4095, the
\* earlier writes done
op_Fx33(x) ==
  LET val == registers[x]
      digit1 == val \div 100
      digit2 == ((val % 100) - (val % 10)) \div 10
      digit3 == val % 10
      m1 == MemWrite(mem, reg_i, digit1)
      m2 == MemWrite(m1, reg_i + 1, digit2)
      m3 == MemWrite(m2, reg_i + 2, digit3)
  IN /\ mem' = IF reg_i > MEM_SIZE - 1 THEN mem
               ELSE IF reg_i + 1 > MEM_SIZE - 1 THEN m1
               ELSE IF reg_i + 2 > MEM_SIZE - 1 THEN m2
               ELSE m3
     /\ IF reg_i + 2 > MEM_SIZE - 1 THEN Panic("index out of bounds") ELSE Done
     /\ UNCHANGED <<pc, reg_i, stack, registers, display, delay_timer, sound_timer>>

\* mutant of op_unknown: a word that matches no arm is skipped
op_unknown_skipped == Done /\ UNCHANGED chip8

\* the last arm: println!("ERROR: UNKNOWN INSTRUCTION ..."); panic!()
op_unknown == Panic("explicit panic") /\ UNCHANGED chip8

execute(word) ==
  \E n \in {split_nibbles(word)} :
     CASE n = <<0, 0, 14, 0>> -> op_00E0
       [] n = <<0, 0, 14, 14>> -> op_00EE
       [] n[1] = 1 -> op_1nnn(n[2], n[3], n[4])
       [] n[1] = 2 -> op_2nnn(n[2], n[3], n[4])
       [] n[1] = 3 -> op_3xkk(n[2], n[3], n[4])
       [] n[1] = 4 -> op_4xkk(n[2], n[3], n[4])
       [] n[1] = 5 /\ n[4] = 0 -> op_5xy0(n[2], n[3])
       [] n[1] = 6 -> op_6xkk(n[2], n[3], n[4])
       [] n[1] = 7 -> op_7xkk(n[2], n[3], n[4])
       [] n[1] = 8 /\ n[4] = 0 -> op_8xy0(n[2], n[3])
       [] n[1] = 8 /\ n[4] = 1 -> op_8xy1(n[2], n[3])
       [] n[1] = 8 /\ n[4] = 2 -> op_8xy2(n[2], n[3])
       [] n[1] = 8 /\ n[4] = 3 -> op_8xy3(n[2], n[3])
       [] n[1] = 8 /\ n[4] = 4 -> op_8xy4(n[2], n[3])
       [] n[1] = 8 /\ n[4] = 5 -> op_8xy5(n[2], n[3])
       [] n[1] = 8 /\ n[4] = 6 -> op_8xy6(n[2], n[3])
       [] n[1] = 8 /\ n[4] = 7 -> op_8xy7(n[2], n[3])
       [] n[1] = 8 /\ n[4] = 14 -> op_8xyE(n[2], n[3])
       [] n[1] = 9 /\ n[4] = 0 -> op_9xy0(n[2], n[3])
       [] n[1] = 10 -> op_Annn(n[2], n[3], n[4])
       [] n[1] = 11 -> op_Bnnn(n[2], n[3], n[4])
       [] n[1] = 12 -> op_Cxkk(n[2], n[3], n[4])
       [] n[1] = 13 -> op_Dxyn(n[2], n[3], n[4])
       [] n[1] = 14 /\ n[3] = 9 /\ n[4] = 14 -> op_Ex9E(n[2])
       [] n[1] = 14 /\ n[3] = 10 /\ n[4] = 1 -> op_ExA1(n[2])
       [] n[1] = 15 /\ n[3] = 0 /\ n[4] = 7 -> op_Fx07(n[2])
       [] n[1] = 15 /\ n[3] = 1 /\ n[4] = 5 -> op_Fx15(n[2])
       [] n[1] = 15 /\ n[3] = 1 /\ n[4] = 8 -> op_Fx18(n[2])
       [] n[1] = 15 /\ n[3] = 1 /\ n[4] = 14 -> op_Fx1E(n[2])
       [] n[1] = 15 /\ n[3] = 0 /\ n[4] = 10 -> op_Fx0A(n[2])
       [] n[1] = 15 /\ n[3] = 2 /\ n[4] = 9 -> op_Fx29(n[2])
       [] n[1] = 15 /\ n[3] = 3 /\ n[4] = 3 -> op_Fx33(n[2])
       [] n[1] = 15 /\ n[3] = 5 /\ n[4] = 5 -> op_Fx55(n[2])
       [] n[1] = 15 /\ n[3] = 6 /\ n[4] = 5 -> op_Fx65(n[2])
       [] OTHER -> op_unknown

Execute ==
  /\ ctl = "execute"
  /\ execute(instruction)
  /\ UNCHANGED <<instruction, buffer, overflow_checks>>

(***************************************************************************)
(* Chip8::draw_display (main.rs 255-274) reads the display and changes     *)
(* nothing of the machine; then the loop of main tests                     *)
(* window_should_close (main.rs 313).                                      *)
(***************************************************************************)
DrawDisplay ==
  /\ ctl = "draw_display"
  /\ ctl' = "fetch"
  /\ UNCHANGED <<mem, pc, reg_i, stack, registers, display, delay_timer, sound_timer,
                 instruction, buffer, panic, overflow_checks>>

WindowClose ==
  /\ ctl = "fetch"
  /\ ctl' = "closed"
  /\ UNCHANGED <<mem, pc, reg_i, stack, registers, display, delay_timer, sound_timer,
                 instruction, buffer, panic, overflow_checks>>

Next == LoadRom \/ Fetch \/ Execute \/ DrawDisplay \/ WindowClose

Spec == Init /\ [][Next]_vars

(***************************************************************************)
(* The loop of main (main.rs 313-317) calls fetch, execute and             *)
(* draw_display in turn and none of them waits, so a run that has not      *)
(* panicked and whose window stays open takes each of them again and       *)
(* again.  FairSpec is main under that scheduling, on the programs that    *)
(* loop and the programs that set the timers.                              *)
(***************************************************************************)
FairInit == Init /\ buffer \in LoopRoms \cup TimerRoms

FairSpec ==
  /\ FairInit
  /\ [][Next]_vars
  /\ WF_vars(LoadRom) /\ WF_vars(Fetch) /\ WF_vars(Execute) /\ WF_vars(DrawDisplay)

(***************************************************************************)
(* Chip8::decrement_timers (main.rs 238-245).  main never calls it.        *)
(* TickSpec is the Chip8 struct under a driver that, besides the steps of  *)
(* main, calls decrement_timers any number of times between two            *)
(* instructions.                                                           *)
(***************************************************************************)
\* mutant of decrement_timers: the timers are decremented without the test
decrement_timers_wrapping ==
  /\ delay_timer' = (delay_timer - 1) % 256
  /\ sound_timer' = (sound_timer - 1) % 256

decrement_timers ==
  /\ delay_timer' = IF delay_timer > 0 THEN delay_timer - 1 ELSE delay_timer
  /\ sound_timer' = IF sound_timer > 0 THEN sound_timer - 1 ELSE sound_timer

DecrementTimers ==
  /\ ctl = "fetch"
  /\ decrement_timers
  /\ UNCHANGED <<mem, pc, reg_i, stack, registers, display,
                 instruction, buffer, ctl, panic, overflow_checks>>

TickNext == Next \/ DecrementTimers

TickSpec == Init /\ [][TickNext]_vars

(***************************************************************************)
(* Properties.  A step of the interpreter is identified by the position    *)
(* of main before it: ctl = "fetch" (the call of fetch, unless the window  *)
(* closes) or ctl = "execute" (the call of execute on the fetched word).   *)
(***************************************************************************)
Nibble(k) == (instruction \div (16 ^ (4 - k))) % 16
Operand12 == instruction % 4096
WordAt(a) == 256 * Mem(a) + Mem(a + 1)
Returned == ctl' = "draw_display" /\ panic' = "none"
Top(s) == s[Len(s)]
Pop(s) == SubSeq(s, 1, Len(s) - 1)
IsCall == ctl = "execute" /\ Nibble(1) = 2
IsReturn == ctl = "execute" /\ instruction = 238

\* C1: a 2nnn fetched at address a (so executed with pc = a + 2) pushes a + 2
\* and sets pc to nnn; a 00EE on a nonempty stack sets pc to the top entry and
\* removes exactly that entry; no other step changes the stack, so that the
\* entry a return pops is the one its matching call pushed; and with 2300 at
\* 0x200 and 00EE at 0x300 the return leaves pc = 0x202.
C1_CallReturnStep ==
  /\ (ctl = "fetch" /\ ctl' = "execute") => (pc' = pc + 2 /\ stack' = stack)
  /\ IsCall => /\ WordAt(pc - 2) = instruction
               /\ stack' = Append(stack, pc)
               /\ pc' = Operand12
               /\ Returned
  /\ (IsReturn /\ stack # << >>) => /\ pc' = Top(stack)
                                    /\ stack' = Pop(stack)
                                    /\ Returned
  /\ (~IsCall /\ ~IsReturn) => stack' = stack
  /\ (IsReturn /\ buffer = CallScenarioRom) => pc' = 514

C1_CallReturn == [][C1_CallReturnStep]_vars

\* C1 witness: a return has run two calls deep (one entry is left on the stack)
\* and has brought pc back to the word after the inner call at 0x202.
C1_Witness ==
  /\ ctl = "draw_display" /\ instruction = 238 /\ panic = "none"
  /\ Len(stack) = 1 /\ stack[1] = 514 /\ pc = 516

\* C2: with pc and pc + 1 in bounds, fetch returns mem[pc] * 256 + mem[pc + 1],
\* leaves pc at its old value plus 2 and changes nothing else of the machine.
C2_FetchStep ==
  (ctl = "fetch" /\ ctl' # "closed" /\ pc + 1 <= 4095) =>
     /\ instruction' = Mem(pc) * 256 + Mem(pc + 1)
     /\ pc' = pc + 2
     /\ ctl' = "execute" /\ panic' = "none"
     /\ UNCHANGED <<mem, reg_i, stack, registers, display, delay_timer, sound_timer>>

C2_Fetch == [][C2_FetchStep]_vars

\* C2 witness: the word 6005 has been fetched from the last two bytes of memory
\* (pc was 0xFFE and is now 0x1000).
C2_Witness == ctl = "execute" /\ pc = 4096 /\ instruction = 24581

\* what the claim says Dxyn does: the pixels the sprite at I inverts
SpriteBit(i, j) == (Mem(reg_i + i) \div (2 ^ (7 - j))) % 2 = 1

Inverted(x, y, n) ==
  { <<(registers[y] + i) % 32, (registers[x] + j) % 64>> :
      <<i, j>> \in { q \in (0..(n - 1)) \X (0..7) : SpriteBit(q[1], q[2]) } }

SpriteInBounds(n) == n = 0 \/ reg_i + n - 1 <= 4095
IsDraw == ctl = "execute" /\ Nibble(1) = 13

\* C3: Dxyn with the sprite addresses in bounds inverts exactly the pixels
\* ((Vx + j) mod 64, (Vy + i) mod 32) whose sprite bit is 1, leaves the others,
\* sets VF to 1 if an inverted pixel was on and to 0 otherwise, whatever VF
\* held, and changes nothing else; D002 with the sprite {0xFF, 0x00} at (0, 0)
\* on an empty display turns on row 0, columns 0..7, and leaves VF = 0.
C3_DrawStep ==
  /\ (IsDraw /\ SpriteInBounds(Nibble(4))) =>
       LET inv == Inverted(Nibble(2), Nibble(3), Nibble(4))
       IN /\ display' = (display \ inv) \cup (inv \ display)
          /\ registers' = [registers EXCEPT ![15] = IF inv \cap display # {} THEN 1 ELSE 0]
          /\ Returned
          /\ UNCHANGED <<mem, pc, reg_i, stack, delay_timer, sound_timer>>
  /\ (IsDraw /\ buffer = DrawScenarioRom) =>
       /\ display = {}
       /\ display' = { <<0, c>> : c \in 0..7 }
       /\ registers'[15] = 0

C3_Draw == [][C3_DrawStep]_vars

\* C3 witness: a draw has returned with a collision (VF = 1) and with pixels
\* left on in column 63 and in column 0 (the sprite wrapped around).
C3_Witness ==
  /\ ctl = "draw_display" /\ Nibble(1) = 13 /\ panic = "none"
  /\ registers[15] = 1
  /\ \E r \in 0..31 : <<r, 63>> \in display /\ <<r, 0>> \in display

\* the display after the Dxyn about to be executed has run twice in succession
\* (the second reads the registers the first has left)
DrawnTwice ==
  LET first == draw(display, registers, Nibble(2), Nibble(3), Nibble(4))
  IN draw(first.display, first.registers, Nibble(2), Nibble(3), Nibble(4)).display

AfterFirstDraw == draw(display, registers, Nibble(2), Nibble(3), Nibble(4)).registers

\* C4 as claimed: the same Dxyn executed twice restores the display, for every
\* display, every operand pair x, y in 0..F and every height n.
C4_DoubleDrawAnyOperands ==
  (IsDraw /\ SpriteInBounds(Nibble(4))) => DrawnTwice = display

\* C4 as amended: the same Dxyn executed twice, with I, the sprite bytes and the
\* values of Vx and Vy unchanged between the two executions, restores the
\* display (the first draw overwrites VF, so with x or y = 0xF the values are
\* unchanged only if VF already held the first draw's collision flag); the
\* second of the three D01n of a program that starts from an empty display
\* leaves the display empty.
C4_DoubleDraw ==
  /\ ( /\ IsDraw /\ SpriteInBounds(Nibble(4))
       /\ AfterFirstDraw[Nibble(2)] = registers[Nibble(2)]
       /\ AfterFirstDraw[Nibble(3)] = registers[Nibble(3)] )
     => DrawnTwice = display
  /\ ( /\ buffer \in TripleDrawRoms /\ ctl = "draw_display" /\ panic = "none"
       /\ Nibble(1) = 13 /\ pc = 522 )
     => display = {}

\* C4 witness: the second of two successive executions of the same D01m has
\* returned, on a display that an earlier sprite left nonempty, with a collision.
C4_Witness ==
  /\ ctl = "draw_display" /\ panic = "none" /\ Nibble(1) = 13
  /\ pc >= 516 /\ WordAt(pc - 4) = instruction /\ WordAt(pc - 2) = instruction
  /\ buffer \notin TripleDrawRoms
  /\ display # {} /\ registers[15] = 1

IsAlu(k) == ctl = "execute" /\ Nibble(1) = 8 /\ Nibble(4) = k
Vx == registers[Nibble(2)]
Vy == registers[Nibble(3)]

\* C5 (the claim, which the code violates): 8xy4 with x # 0xF returns, Vx
\* becomes (Vx + Vy) mod 256, and VF becomes 1 if Vx + Vy > 255 and 0 otherwise.
C5_AddCarryStep ==
  (IsAlu(4) /\ Nibble(2) # 15) =>
     /\ Returned
     /\ registers'[Nibble(2)] = (Vx + Vy) % 256
     /\ registers'[15] = IF Vx + Vy > 255 THEN 1 ELSE 0

C5_AddCarry == [][C5_AddCarryStep]_vars

\* C6 (the claim, which the code violates): 7xkk returns, Vx becomes
\* (Vx + kk) mod 256, and no other register changes.
C6_AddImmediateStep ==
  (ctl = "execute" /\ Nibble(1) = 7) =>
     /\ Returned
     /\ registers' = [registers EXCEPT ![Nibble(2)] = (Vx + (instruction % 256)) % 256]

C6_AddImmediate == [][C6_AddImmediateStep]_vars

\* C7 (the claim, which the code violates): 8xy5 with x # 0xF returns, Vx
\* becomes (Vx - Vy) mod 256, and VF becomes 1 if Vx >= Vy held and 0 otherwise.
C7_SubBorrowStep ==
  (IsAlu(5) /\ Nibble(2) # 15) =>
     /\ Returned
     /\ registers'[Nibble(2)] = (Vx - Vy) % 256
     /\ registers'[15] = IF Vx >= Vy THEN 1 ELSE 0

C7_SubBorrow == [][C7_SubBorrowStep]_vars

\* C8 (the claim, which the code violates): 8xy7 with x # 0xF returns, Vx
\* becomes (Vy - Vx) mod 256, Vy is unchanged (where y is neither x nor 0xF),
\* and VF becomes 1 if Vy >= Vx held and 0 otherwise.
C8_SubReverseStep ==
  (IsAlu(7) /\ Nibble(2) # 15) =>
     /\ Returned
     /\ registers'[Nibble(2)] = (Vy - Vx) % 256
     /\ (Nibble(3) \notin {Nibble(2), 15}) => registers'[Nibble(3)] = Vy
     /\ registers'[15] = IF Vy >= Vx THEN 1 ELSE 0

C8_SubReverse == [][C8_SubReverseStep]_vars

\* C9 (the claim, which the code violates): after 8Fy4, 8Fy5 or 8Fy7, VF holds
\* the flag of the opcode (carry, no borrow), not the arithmetic result.
C9_FlagOverridesStep ==
  /\ (IsAlu(4) /\ Nibble(2) = 15) => registers'[15] = IF Vx + Vy > 255 THEN 1 ELSE 0
  /\ (IsAlu(5) /\ Nibble(2) = 15) => registers'[15] = IF Vx >= Vy THEN 1 ELSE 0
  /\ (IsAlu(7) /\ Nibble(2) = 15) => registers'[15] = IF Vy >= Vx THEN 1 ELSE 0

C9_FlagOverrides == [][C9_FlagOverridesStep]_vars

\* the opcode patterns of the instruction table
InTable ==
  \/ instruction \in {224, 238}
  \/ Nibble(1) \in {1, 2, 3, 4, 6, 7, 10, 11, 12, 13}
  \/ Nibble(1) \in {5, 9} /\ Nibble(4) = 0
  \/ Nibble(1) = 8 /\ Nibble(4) \in {0, 1, 2, 3, 4, 5, 6, 7, 14}
  \/ Nibble(1) = 14 /\ instruction % 256 \in {158, 161}
  \/ Nibble(1) = 15 /\ instruction % 256 \in {7, 10, 21, 24, 30, 41, 51, 85, 101}

\* C10 (the claim, which the code violates): a step panics only when it
\* accesses memory out of bounds (fetch past 0xFFF, a sprite row or a digit of
\* Fx33 past 0xFFF), returns on an empty stack, or has fetched a word that
\* matches no pattern of the table.
C10_FaultStep ==
  /\ (ctl = "fetch" /\ ctl' = "panicked") => pc + 1 > 4095
  /\ (ctl = "execute" /\ ctl' = "panicked") =>
       \/ ~InTable
       \/ instruction = 238 /\ stack = << >>
       \/ IsDraw /\ ~SpriteInBounds(Nibble(4))
       \/ Nibble(1) = 15 /\ instruction % 256 = 51 /\ reg_i + 2 > 4095

C10_FaultOnlyOnBadProgram == [][C10_FaultStep]_vars

MemOf(m, a) == IF a \in DOMAIN m THEN m[a] ELSE 0
IsBcd == ctl = "execute" /\ Nibble(1) = 15 /\ instruction % 256 = 51
RowsInBounds == IF reg_i > 4095 THEN 0 ELSE 4096 - reg_i

\* C11: each of these steps ends the run in a panic, after which no step
\* changes anything: a fetch with pc + 1 above 4095 (nothing is read from a
\* wrapped address: the machine is left as it was); a Dxyn whose sprite runs
\* past 4095 (only the rows at addresses up to 4095 are drawn); an Fx33 with
\* I + 2 above 4095 (no byte below I is written); a 00EE on an empty stack; a
\* word that matches no pattern of the table (0x0000, 5xy1, 8xy8, 9xy1, ExFF,
\* FxFF).
C11_FatalFaultStep ==
  /\ (ctl = "fetch" /\ ctl' # "closed" /\ pc + 1 > 4095) =>
       (ctl' = "panicked" /\ UNCHANGED <<chip8, instruction>>)
  /\ (IsDraw /\ ~SpriteInBounds(Nibble(4))) =>
       LET inv == Inverted(Nibble(2), Nibble(3), RowsInBounds)
       IN /\ ctl' = "panicked"
          /\ display' = (display \ inv) \cup (inv \ display)
          /\ UNCHANGED <<mem, pc, reg_i, stack>>
  /\ (IsBcd /\ reg_i + 2 > 4095) =>
       /\ ctl' = "panicked"
       /\ \A a \in DOMAIN mem \cup DOMAIN mem' : a < reg_i => MemOf(mem', a) = Mem(a)
       /\ UNCHANGED <<pc, reg_i, stack, registers, display>>
  /\ (IsReturn /\ stack = << >>) => (ctl' = "panicked" /\ UNCHANGED chip8)
  /\ (ctl = "execute" /\ ~InTable) => (ctl' = "panicked" /\ UNCHANGED chip8)
  /\ ctl = "panicked" => UNCHANGED vars

C11_FatalFault == [][C11_FatalFaultStep]_vars

\* C11 witness: Fx33 of 255 with I = 0xFFE has panicked at its third write, the
\* digits 2 and 5 written at 0xFFE and 0xFFF.
C11_Witness ==
  /\ ctl = "panicked" /\ panic = "index out of bounds"
  /\ Nibble(1) = 15 /\ instruction % 256 = 51
  /\ reg_i = 4094 /\ Mem(4094) = 2 /\ Mem(4095) = 5

Floor0(v) == IF v - 1 > 0 THEN v - 1 ELSE 0
IsTick == ctl = "fetch" /\ ctl' = "fetch"

\* C12: a call of decrement_timers (the only step that leaves main at the top
\* of its loop) sets delay_timer to max(delay_timer - 1, 0) and sound_timer to
\* max(sound_timer - 1, 0), each by its own value, and changes nothing else.
C12_TimerTickStep ==
  IsTick =>
    /\ delay_timer' = Floor0(delay_timer)
    /\ sound_timer' = Floor0(sound_timer)
    /\ delay_timer' \in U8 /\ sound_timer' \in U8
    /\ UNCHANGED <<mem, pc, reg_i, stack, registers, display, instruction, buffer,
                   panic, overflow_checks>>

C12_TimerTick == [][C12_TimerTickStep]_vars

\* C12 witness: in the program that sets the delay timer to 255 and the sound
\* timer to 2, the delay timer was ticked down to 0 before the sound timer was
\* set, and a further tick has left it at 0 and taken the sound timer to 1.
C12_Witness ==
  /\ ctl = "fetch" /\ pc = 520 /\ Mem(512) = 96 /\ Mem(513) = 255
  /\ delay_timer = 0 /\ sound_timer = 1

\* the program 00E0, 1200 between two steps (before fetch, after execute) and
\* within a step (after fetch)
ClearLoopInv ==
  /\ panic = "none" /\ ctl # "panicked"
  /\ display = {}
  /\ ctl \in {"load_rom", "fetch", "draw_display", "closed"} => pc \in {512, 514}
  /\ ctl = "execute" => (pc = 514 /\ instruction = 224) \/ (pc = 516 /\ instruction = 4608)

ClearLoopBack == ctl = "fetch" /\ pc = 512 /\ instruction = 4608

\* C13: with the program 00E0, 1200 no state has panicked, the display is
\* empty in every state, pc is 0x200 or 0x202 between two steps, and as long as
\* the window stays open the jump brings pc back to 0x200 again and again.
C13_ClearLoop ==
  /\ [](buffer = ClearLoopRom => ClearLoopInv)
  /\ []<>(buffer = ClearLoopRom => (ctl = "closed" \/ ClearLoopBack))

\* C13 witness: the jump 1200 has been executed and drawn, and pc is 0x200 again.
C13_Witness == buffer = ClearLoopRom /\ ClearLoopBack

IsKeyWait == ctl = "execute" /\ Nibble(1) = 15 /\ instruction % 256 = 10

\* C14 (the claim, which the code violates): the execution of Fx0A does not
\* panic; it either leaves the machine as it is (no key is pressed: the
\* machine stays at the Fx0A) or stores the value of the pressed key, 0..15, in
\* Vx, changes nothing else and returns, so that the next instruction follows.
C14_KeyWaitStep ==
  IsKeyWait =>
    /\ ctl' # "panicked" /\ panic' = "none"
    /\ \/ UNCHANGED chip8
       \/ /\ \E key \in 0..15 : registers' = [registers EXCEPT ![Nibble(2)] = key]
          /\ Returned
          /\ UNCHANGED <<mem, pc, reg_i, stack, display, delay_timer, sound_timer>>

C14_KeyWait == [][C14_KeyWaitStep]_vars

IsAddIndex == ctl = "execute" /\ Nibble(1) = 15 /\ instruction % 256 = 30

\* C15: Fx1E with I + Vx <= 0xFFFF returns with I = I + Vx, the full sum, and
\* changes no register and nothing else; in the program AFFE 6A05 FA1E it is
\* executed with I = 0x0FFE and VA = 5 and leaves I = 0x1003.
C15_AddIndexStep ==
  /\ (IsAddIndex /\ reg_i + Vx <= 65535) =>
       /\ reg_i' = reg_i + Vx
       /\ Returned
       /\ UNCHANGED <<mem, pc, stack, registers, display, delay_timer, sound_timer>>
  /\ (IsAddIndex /\ buffer = AddIndexScenarioRom) =>
       /\ reg_i = 4094 /\ Nibble(2) = 10 /\ Vx = 5
       /\ reg_i' = 4099

C15_AddIndex == [][C15_AddIndexStep]_vars

\* C15 witness: FF1E has returned with VF = 255 and I above 0xF000, a sum that
\* does not fit 12 bits.
C15_Witness ==
  /\ ctl = "draw_display" /\ panic = "none"
  /\ Nibble(1) = 15 /\ instruction % 256 = 30
  /\ registers[15] = 255 /\ reg_i > 61440 /\ (reg_i - 4095) % 255 = 0

\* C16: load_rom on the machine that Chip8::new has built.  A ROM of at most
\* 4096 - 0x200 bytes is in mem from 0x200 on, byte for byte, every other byte
\* of mem is 0, pc is 0x200, and I, the registers, the timers, the stack and
\* the display are zero, empty, all off.  A longer ROM panics and nothing of it
\* is written.
C16_LoadStep ==
  ctl = "load_rom" =>
    IF Len(buffer) <= 4096 - 512
    THEN /\ ctl' = "fetch" /\ panic' = "none"
         /\ \A a \in 0..4095 :
              MemOf(mem', a) = IF a >= 512 /\ a < 512 + Len(buffer)
                               THEN buffer[a - 512 + 1] ELSE 0
         /\ pc' = 512 /\ reg_i' = 0
         /\ \A r \in 0..15 : registers'[r] = 0
         /\ delay_timer' = 0 /\ sound_timer' = 0
         /\ stack' = << >> /\ display' = {}
    ELSE /\ ctl' = "panicked" /\ panic' # "none"
         /\ \A a \in 0..4095 : MemOf(mem', a) = 0

C16_Load == [][C16_LoadStep]_vars

\* C16 witness: the longest ROM that fits (3584 bytes) has been loaded: its
\* first word is at 0x200 and its last word, 6005, at 0xFFE.
C16_Witness ==
  /\ ctl = "fetch" /\ pc = 512 /\ instruction = 0
  /\ Len(buffer) = 3584
  /\ Mem(512) = 31 /\ Mem(513) = 254 /\ Mem(4094) = 96 /\ Mem(4095) = 5

IsClear == ctl = "execute" /\ instruction = 224

\* C17: only the execution of a Dxyn or of 00E0 changes the display (not the
\* ROM load, fetch, decrement_timers, draw_display or any other arm of
\* execute); and 00E0 returns with every pixel off and nothing else of the
\* machine changed.
C17_DisplayFrameStep ==
  /\ display' # display => (IsDraw \/ IsClear)
  /\ (ctl # "execute" \/ IsTick) => display' = display
  /\ IsClear =>
       /\ display' = {}
       /\ Returned
       /\ UNCHANGED <<mem, pc, reg_i, stack, registers, delay_timer, sound_timer>>

C17_DisplayFrame == [][C17_DisplayFrameStep]_vars

\* C17 witness: in the program that draws the sprite {0xD0, 0x02} and then
\* clears the screen, 00E0 has returned and the display is empty.
C17_Witness ==
  /\ buffer = ClearRom
  /\ ctl = "draw_display" /\ panic = "none" /\ instruction = 224 /\ pc = 518
  /\ display = {}

\* C18: Fx33 with I + 2 <= 4095 returns with the hundreds, tens and ones digit
\* of Vx at I, I + 1 and I + 2 (each in 0..9, and together they make Vx), every
\* other byte of mem as it was, and the registers, I and the rest unchanged.
C18_BcdStep ==
  (IsBcd /\ reg_i + 2 <= 4095) =>
    LET d1 == MemOf(mem', reg_i)
        d2 == MemOf(mem', reg_i + 1)
        d3 == MemOf(mem', reg_i + 2)
    IN /\ d1 = Vx \div 100
       /\ d2 = (Vx \div 10) % 10
       /\ d3 = Vx % 10
       /\ {d1, d2, d3} \subseteq 0..9
       /\ 100 * d1 + 10 * d2 + d3 = Vx
       /\ \A a \in (DOMAIN mem \cup DOMAIN mem') \ (reg_i..(reg_i + 2)) :
            MemOf(mem', a) = Mem(a)
       /\ Returned
       /\ UNCHANGED <<pc, reg_i, stack, registers, display, delay_timer, sound_timer>>

C18_Bcd == [][C18_BcdStep]_vars

\* C18 witness: F033 has returned with V0 = 109 and the digits 1, 0, 9 at
\* 0x300 .. 0x302.
C18_Witness ==
  /\ ctl = "draw_display" /\ panic = "none"
  /\ Nibble(1) = 15 /\ instruction % 256 = 51
  /\ registers[0] = 109 /\ reg_i = 768
  /\ Mem(768) = 1 /\ Mem(769) = 0 /\ Mem(770) = 9

IsSkip ==
  /\ ctl = "execute"
  /\ Nibble(1) \in {3, 4} \/ (Nibble(1) \in {5, 9} /\ Nibble(4) = 0)

\* C19: a step from pc = a is a fetch, which leaves pc = a + 2, and the
\* execution of the fetched word, which leaves pc at a + 4 (pc + 2) or a + 2
\* (pc) by the test of the skip for 3xkk, 4xkk, 5xy0 and 9xy0, at nnn for 1nnn,
\* and at a + 2 for every other word whose execution returns, 2nnn and 00EE
\* apart; a skip returns and changes nothing but pc.
C19_PcStep ==
  /\ (ctl = "fetch" /\ ctl' = "execute") => pc' = pc + 2
  /\ ctl = "execute" =>
       LET kk == instruction % 256
       IN /\ Nibble(1) = 3 => pc' = IF Vx = kk THEN pc + 2 ELSE pc
          /\ Nibble(1) = 4 => pc' = IF Vx # kk THEN pc + 2 ELSE pc
          /\ (Nibble(1) = 5 /\ Nibble(4) = 0) => pc' = IF Vx = Vy THEN pc + 2 ELSE pc
          /\ (Nibble(1) = 9 /\ Nibble(4) = 0) => pc' = IF Vx # Vy THEN pc + 2 ELSE pc
          /\ Nibble(1) = 1 => pc' = Operand12
          /\ IsSkip =>
               /\ Returned
               /\ UNCHANGED <<mem, reg_i, stack, registers, display, delay_timer, sound_timer>>
          /\ (Returned /\ ~IsSkip /\ Nibble(1) \notin {1, 2} /\ instruction # 238) =>
               pc' = pc

C19_Pc == [][C19_PcStep]_vars

\* C19 witness: 3000, fetched from the last word of mem (a = 0xFFE) with
\* V0 = 0, has skipped: pc = a + 4 = 0x1002.
C19_Witness ==
  /\ ctl = "draw_display" /\ panic = "none"
  /\ instruction = 12288 /\ registers[0] = 0 /\ pc = 4098

Running == ctl \notin {"panicked", "closed"}
IsSetDelay == ctl = "execute" /\ Nibble(1) = 15 /\ instruction % 256 = 21
IsSetSound == ctl = "execute" /\ Nibble(1) = 15 /\ instruction % 256 = 24

\* C20 (the claim, which the code violates): while main runs (no panic, the
\* window open), a delay or sound timer that is nonzero reaches 0, unless the
\* program sets it again with Fx15 or Fx18; and apart from the execution of
\* Fx15 (delay) and Fx18 (sound) the only change of a timer is a tick, which
\* takes it down by 1.
C20_TimersRunDown ==
  /\ (delay_timer > 0 /\ Running) ~> (delay_timer = 0 \/ ~Running \/ IsSetDelay)
  /\ (sound_timer > 0 /\ Running) ~> (sound_timer = 0 \/ ~Running \/ IsSetSound)
  /\ [][ /\ (delay_timer' # delay_timer /\ ~IsSetDelay) => delay_timer' = delay_timer - 1
         /\ (sound_timer' # sound_timer /\ ~IsSetSound) => sound_timer' = sound_timer - 1 ]_vars
=============================================================================
